---- MODULE Spec2Model ----
(***************************************************************************)
(* Model of the printer-tool label pipeline.                               *)
(*                                                                         *)
(*   label_generator.py : generate_codes and the four create_*_label       *)
(*                        routines (compose a label raster into a temp     *)
(*                        file, using QR / barcode temp files)             *)
(*   main.py            : generate_labels (the button handler: dispatch on *)
(*                        the label type, convert, print N copies, clean   *)
(*                        up), convert_to_zpl, send_to_printer             *)
(*                                                                         *)
(* Python strings are sequences of one-character strings.  An optional     *)
(* string (barcode_data) is None == <<>> or Some(s) == <<s>>.  A file path *)
(* variable holds a path or NoFile (Python's None).  One request runs per  *)
(* behaviour: requests share nothing but the file system, where every      *)
(* temporary file gets a fresh name.                                       *)
(***************************************************************************)
EXTENDS Integers, Sequences, FiniteSets, TLC

\* ------------------------------------------------------------ bounds
\* Longest text fed to the wrapping step checked in isolation (WrapSpec).
MaxLen == 65
\* Most copies a request of the model asks for (copies_combo offers 1..10).
MaxCopies == 3

\* -------------------------------------------------- program constants
dpi == 203

None == <<>>
Some(s) == <<s>>
NoFile == "None"
NoExc == "None"
NoRoutine == "none"

ProductKinds == {"1x2", "1x3"}
ShelfKinds == {"1x4", "2x4"}
LabelKinds == ProductKinds \cup ShelfKinds

\* Python truthiness of an optional string: None and "" are falsy.
Truthy(o) == o # None /\ Len(o[1]) > 0

\* int(px * num / den) for the non-negative products the layout computes.
IntMul(px, num, den) == (px * num) \div den

\* ------------------------------------------------------------ wrapping
\* range(start, stop, step) as the sequence of its values.
RECURSIVE Range(_, _, _)
Range(start, stop, step) ==
    IF start >= stop THEN <<>>
    ELSE <<start>> \o Range(start + step, stop, step)

\* Python slice s[i:j] for 0 <= i <= j (clipped at len(s)).
Slice(s, i, j) ==
    LET hi == IF j < Len(s) THEN j ELSE Len(s)
    IN  IF i >= hi THEN <<>> ELSE SubSeq(s, i + 1, hi)

\* A plausible slip: the comprehension stops at the last full chunk.
WrapDropTail(text, k) ==
    LET starts == Range(0, Len(text) - k + 1, k)
    IN  [n \in 1..Len(starts) |-> Slice(text, starts[n], starts[n] + k)]

\* [text[i:i + k] for i in range(0, len(text), k)]
Wrap(text, k) ==
    LET starts == Range(0, Len(text), k)
    IN  [n \in 1..Len(starts) |-> Slice(text, starts[n], starts[n] + k)]

\* A plausible slip: one limit shared by every routine.
BinLimitShared(kind) == 20

\* max_bin_line_length / max_chars_per_line of each routine.
BinLimit(kind) ==
    CASE kind = "1x2" -> 18
      [] kind = "1x3" -> 22
      [] kind = "1x4" -> 20
      [] kind = "2x4" -> 5

\* max_desc_line_length of the two product routines.
DescLimit(kind) ==
    CASE kind = "1x2" -> 20
      [] kind = "1x3" -> 32

\* ------------------------------------------------------------ geometry
WidthInches(kind) ==
    CASE kind = "1x2" -> 2
      [] kind = "1x3" -> 3
      [] kind = "1x4" -> 4
      [] kind = "2x4" -> 4

HeightInches(kind) ==
    CASE kind = "1x2" -> 1
      [] kind = "1x3" -> 1
      [] kind = "1x4" -> 1
      [] kind = "2x4" -> 2

\* A plausible slip: a routine copied without changing its width factor.
label_width_px_copied(kind) == 2 * dpi

label_width_px(kind) == WidthInches(kind) * dpi

label_height_px(kind) == HeightInches(kind) * dpi

\* qr_width = int(label_height_px * ratio)
qr_width(kind) ==
    CASE kind \in ProductKinds -> IntMul(label_height_px(kind), 5, 10)
      [] kind = "1x4" -> IntMul(label_height_px(kind), 8, 10)
      [] kind = "2x4" -> IntMul(label_height_px(kind), 65, 100)

\* qr_x: left margin on product labels, right-aligned on shelf labels.
qr_x(kind) ==
    CASE kind \in ProductKinds -> IntMul(label_width_px(kind), 5, 100)
      [] kind = "1x4" -> IntMul(label_width_px(kind), 85, 100) - qr_width(kind)
      [] kind = "2x4" ->
           \* int(W - qr_width - W * 0.05)
           ((label_width_px(kind) - qr_width(kind)) * 100
              - label_width_px(kind) * 5) \div 100

\* barcode_x = int(label_width_px * 0.55)
barcode_x(kind) == IntMul(label_width_px(kind), 55, 100)

\* desc_y = label_height_px * 0.625, kept exact in thousandths of a pixel.
desc_y_milli(kind) == label_height_px(kind) * 625

\* A local variable that has not been assigned.
Unbound == -1

\* -------------------------------------------------------------- inputs
\* The text of length n over a repeating alphabet starting at letter a.
Text(n, a) == [i \in 1..n |-> <<"a", "b", "c", "d", "e", "f", "g">>[((i + a) % 7) + 1]]

AA10 == <<"A", "A", "1", "0">>
EquipmentShare ==
    <<"E", "q", "u", "i", "p", "m", "e", "n", "t", "S", "h", "a", "r", "e">>

\* manufacturer_entry.get(), product_combo.get(), description_entry.get(),
\* bin_combo.get(), provider_entry.get(), copies_combo.get(), printer_combo.get()
ManufacturerInputs == {<<>>, <<"M", "1">>}
ProductInputs == {<<>>, <<"7", "7">>}
DescriptionInputs == {<<>>, Text(45, 0)}
BinInputs == {<<>>, AA10, Text(23, 3)}
ProviderInputs == {<<"A", "c", "m", "e">>}
CopiesInputs == 1..MaxCopies
PrinterInputs == {"", "ZD420"}
LabelVarInputs == LabelKinds \cup {"None"}
\* What the conversion service may answer: [status, text].
Responses == {<<200, "^XA^XZ">>, <<500, "ERROR">>}
\* Texts fed to the wrapping step checked in isolation.
WrapInputs == {Text(n, a) : n \in 0..MaxLen, a \in {0, 3}}

\* ---------------------------------------------------------- file names
\* tempfile.NamedTemporaryFile(suffix=".png", delete=False).name
QrPath == "qr.png"
BarcodePath == "barcode.png"
LabelPath == "label.png"
\* png_file.replace(".png", ".zpl")
ZplPath(png_file) == IF png_file = LabelPath THEN "label.zpl" ELSE png_file

VARIABLES
    pc,                 \* position in the running call
    caller,             \* "none", "gui" (generate_labels) or "direct"
    routine,            \* the create_* routine running: a label kind, or NoRoutine
    \* the request: label_var and the arguments of the create_* routine
    selected_label, qr_data, barcode_data, description, bin_location,
    product_code, title, num_copies, selected_printer,
    \* the file system and the collaborators' call logs
    files, qr_calls, barcode_calls, convert_calls, printed,
    \* the compositor's locals and canvas
    qr_file, barcode_file, canvas, canvas_allocs, drawn,
    wrapped_bin_lines, wrapped_desc_lines, layout, saved, temp_path,
    \* the exception in flight / propagated to the caller
    exc,
    \* generate_labels' locals
    label_file, zpl_file, zpl_text, response, copies_done, dispatches,
    \* send_to_printer's locals and the spooler
    zpl_data, hprinter, job, sp_failed, opens, closes, sent

reqVars == <<selected_label, qr_data, barcode_data, description, bin_location,
             product_code, title, num_copies, selected_printer>>
envVars == <<files, qr_calls, barcode_calls, convert_calls, printed>>
composeVars == <<qr_file, barcode_file, canvas, canvas_allocs, drawn,
                 wrapped_bin_lines, wrapped_desc_lines, layout, saved, temp_path>>
guiVars == <<label_file, zpl_file, zpl_text, response, copies_done, dispatches>>
spVars == <<zpl_data, hprinter, job, sp_failed, opens, closes, sent>>
vars == <<pc, caller, routine, reqVars, envVars, composeVars, exc, guiVars, spVars>>

NoLayout == [qr_x |-> Unbound, barcode_x |-> Unbound, desc_x |-> Unbound,
             desc_y_milli |-> Unbound]

Init ==
    /\ pc = "idle"
    /\ caller = "none"
    /\ routine = NoRoutine
    /\ selected_label = "None"
    /\ qr_data = <<>>
    /\ barcode_data = None
    /\ description = <<>>
    /\ bin_location = <<>>
    /\ product_code = <<>>
    /\ title = <<>>
    /\ num_copies = 1
    /\ selected_printer = ""
    /\ files = {}
    /\ qr_calls = <<>>
    /\ barcode_calls = <<>>
    /\ convert_calls = 0
    /\ printed = {}
    /\ qr_file = NoFile
    /\ barcode_file = NoFile
    /\ canvas = <<>>
    /\ canvas_allocs = 0
    /\ drawn = <<>>
    /\ wrapped_bin_lines = <<>>
    /\ wrapped_desc_lines = <<>>
    /\ layout = NoLayout
    /\ saved = <<>>
    /\ temp_path = NoFile
    /\ exc = NoExc
    /\ label_file = NoFile
    /\ zpl_file = NoFile
    /\ zpl_text = ""
    /\ response = <<0, "">>
    /\ copies_done = 0
    /\ dispatches = <<>>
    /\ zpl_data = ""
    /\ hprinter = FALSE
    /\ job = <<>>
    /\ sp_failed = FALSE
    /\ opens = 0
    /\ closes = 0
    /\ sent = <<>>

\* ------------------------------------------------------- label_generator
\* Where an exception leaving a create_* routine lands: generate_labels'
\* finally clause, or the direct caller.
Unwind == IF caller = "gui" THEN "finally" ELSE "done"

\* A plausible slip: the encoder call wrapped in a handler that carries on.
GenQrSwallow ==
    /\ pc = "gen_qr"
    /\ files' = files \cup {QrPath}
    /\ \E ok \in BOOLEAN :
         /\ qr_calls' = Append(qr_calls, [data |-> qr_data, ok |-> ok])
         /\ pc' = "gen_barcode"
    /\ UNCHANGED <<caller, routine, reqVars, barcode_calls, convert_calls, printed,
                   composeVars, exc, guiVars, spVars>>

\* generate_codes, first half: the QR temp file is created, then the QR
\* encoder runs on qr_data; an encoder error leaves through every frame.
GenQr ==
    /\ pc = "gen_qr"
    /\ files' = files \cup {QrPath}
    /\ \E ok \in BOOLEAN :
         /\ qr_calls' = Append(qr_calls, [data |-> qr_data, ok |-> ok])
         /\ IF ok
              THEN pc' = "gen_barcode" /\ exc' = exc
              ELSE pc' = Unwind /\ exc' = "EncodingFailed"
    /\ UNCHANGED <<caller, routine, reqVars, barcode_calls, convert_calls, printed,
                   composeVars, guiVars, spVars>>

\* A plausible slip: "if barcode_data is not None" dropped altogether.
TruthyAlways(o) == TRUE

\* if barcode_data:
WantsBarcode(o) == Truthy(o)

\* generate_codes, second half, and the return of (qr_file, barcode_file).
GenBarcode ==
    /\ pc = "gen_barcode"
    /\ IF WantsBarcode(barcode_data)
         THEN /\ files' = files \cup {BarcodePath}
              /\ \E ok \in BOOLEAN :
                   /\ barcode_calls' =
                        Append(barcode_calls, [data |-> barcode_data, ok |-> ok])
                   /\ IF ok
                        THEN /\ pc' = "new_canvas"
                             /\ qr_file' = QrPath
                             /\ barcode_file' = BarcodePath
                             /\ exc' = exc
                        ELSE /\ pc' = Unwind
                             /\ exc' = "EncodingFailed"
                             /\ UNCHANGED <<qr_file, barcode_file>>
         ELSE /\ pc' = "new_canvas"
              /\ qr_file' = QrPath
              /\ barcode_file' = NoFile
              /\ UNCHANGED <<files, barcode_calls, exc>>
    /\ UNCHANGED <<caller, routine, reqVars, qr_calls, convert_calls, printed,
                   canvas, canvas_allocs, drawn, wrapped_bin_lines,
                   wrapped_desc_lines, layout, saved, temp_path,
                   guiVars, spVars>>

\* Image.new("RGB", (label_width_px, label_height_px), "white")
NewCanvas ==
    /\ pc = "new_canvas"
    /\ canvas' = <<label_width_px(routine), label_height_px(routine)>>
    /\ canvas_allocs' = canvas_allocs + 1
    /\ pc' = "draw"
    /\ UNCHANGED <<caller, routine, reqVars, envVars, qr_file, barcode_file, drawn,
                   wrapped_bin_lines, wrapped_desc_lines, layout, saved,
                   temp_path, exc, guiVars, spVars>>

\* One draw.text call per wrapped line.
LineOps(op, lines) == [i \in 1..Len(lines) |-> [op |-> op, text |-> lines[i]]]

\* if barcode_file: paste the barcode and draw product_code under it.
BarcodeOps(bf) ==
    IF bf # NoFile
      THEN <<[op |-> "barcode", text |-> <<>>],
             [op |-> "barcode_text", text |-> product_code]>>
      ELSE <<>>

\* The draw operations of a product routine, in the routine's order.
ProductOps(bin_lines, desc_lines) ==
    <<[op |-> "title", text |-> title], [op |-> "qr", text |-> <<>>]>>
      \o LineOps("bin", bin_lines)
      \o BarcodeOps(barcode_file)
      \o LineOps("desc", desc_lines)

\* The draw operations of a shelf routine: only create_1x4_shelf_label
\* draws the "Bin #:" caption.
ShelfOps(kind, bin_lines) ==
    <<[op |-> "title", text |-> title], [op |-> "qr", text |-> <<>>]>>
      \o (IF kind = "1x4"
            THEN <<[op |-> "caption", text |-> <<"B", "i", "n", " ", "#", ":">>]>>
            ELSE <<>>)
      \o LineOps("bin", bin_lines)

\* A plausible slip: desc_x = barcode_x, read whether or not the barcode
\* branch assigned it.
ProductLayoutReadsBarcodeX(kind, bf) ==
    [qr_x |-> qr_x(kind),
     barcode_x |-> IF bf # NoFile THEN barcode_x(kind) ELSE Unbound,
     desc_x |-> IF bf # NoFile THEN barcode_x(kind) ELSE Unbound,
     desc_y_milli |-> desc_y_milli(kind)]

\* The layout locals a product routine has assigned by its end:
\* desc_x = barcode_x if barcode_file else qr_x.
ProductLayout(kind, bf) ==
    [qr_x |-> qr_x(kind),
     barcode_x |-> IF bf # NoFile THEN barcode_x(kind) ELSE Unbound,
     desc_x |-> IF bf # NoFile THEN barcode_x(kind) ELSE qr_x(kind),
     desc_y_milli |-> desc_y_milli(kind)]

ShelfLayout(kind) ==
    [qr_x |-> qr_x(kind), barcode_x |-> Unbound, desc_x |-> Unbound,
     desc_y_milli |-> Unbound]

\* Everything between Image.new and the save: the fonts are loaded
\* (a missing typeface raises at the first ImageFont.truetype, before
\* anything is drawn), the texts wrapped and every element drawn.
Draw ==
    /\ pc = "draw"
    /\ \E fontOk \in BOOLEAN :
         IF fontOk
           THEN LET kind == routine
                    bin_lines == Wrap(bin_location, BinLimit(kind))
                    desc_lines == IF kind \in ProductKinds
                                    THEN Wrap(description, DescLimit(kind))
                                    ELSE <<>>
                IN  /\ wrapped_bin_lines' = bin_lines
                    /\ wrapped_desc_lines' = desc_lines
                    /\ drawn' = IF kind \in ProductKinds
                                  THEN ProductOps(bin_lines, desc_lines)
                                  ELSE ShelfOps(kind, bin_lines)
                    /\ layout' = IF kind \in ProductKinds
                                   THEN ProductLayout(kind, barcode_file)
                                   ELSE ShelfLayout(kind)
                    /\ pc' = "save"
                    /\ exc' = exc
           ELSE /\ pc' = Unwind
                /\ exc' = "ResourceUnavailable"
                /\ UNCHANGED <<drawn, wrapped_bin_lines, wrapped_desc_lines, layout>>
    /\ UNCHANGED <<caller, routine, reqVars, envVars, qr_file, barcode_file, canvas,
                   canvas_allocs, saved, temp_path, guiVars, spVars>>

\* with NamedTemporaryFile(...) as temp_file: label.save(temp_path, dpi=...)
\* The temp file exists (delete=False) whether or not the save succeeds.
Save ==
    /\ pc = "save"
    /\ files' = files \cup {LabelPath}
    /\ temp_path' = LabelPath
    /\ \E ok \in BOOLEAN :
         IF ok
           THEN pc' = "cleanup_codes" /\ saved' = canvas /\ exc' = exc
           ELSE pc' = Unwind /\ saved' = saved /\ exc' = "SaveFailed"
    /\ UNCHANGED <<caller, routine, reqVars, qr_calls, barcode_calls, convert_calls,
                   printed, qr_file, barcode_file, canvas, canvas_allocs,
                   drawn, wrapped_bin_lines, wrapped_desc_lines, layout,
                   guiVars, spVars>>

\* os.remove(qr_file); if barcode_file: os.remove(barcode_file)
CleanupCodes ==
    /\ pc = "cleanup_codes"
    /\ files' = (files \ {qr_file})
                  \ (IF routine \in ProductKinds /\ barcode_file # NoFile
                       THEN {barcode_file} ELSE {})
    /\ pc' = "compose_return"
    /\ UNCHANGED <<caller, routine, reqVars, qr_calls, barcode_calls, convert_calls,
                   printed, composeVars, exc, guiVars, spVars>>

\* ------------------------------------------------------------------ main
\* A call of create_<kind>_label: the routine's arguments are bound.  The
\* shelf routines take (bin_location, title) and pass bin_location to
\* generate_codes as its qr_data, with no barcode data.
CallRoutine(kind, q, bc, d, b, code, t) ==
    /\ routine' = kind
    /\ qr_data' = (IF kind \in ShelfKinds THEN b ELSE q)
    /\ barcode_data' = (IF kind \in ShelfKinds THEN None ELSE bc)
    /\ description' = (IF kind \in ShelfKinds THEN <<>> ELSE d)
    /\ bin_location' = b
    /\ product_code' = (IF kind \in ShelfKinds THEN <<>> ELSE code)
    /\ title' = t
    /\ pc' = "gen_qr"

\* A create_* routine called on its own (a test harness, the commented
\* examples at the end of label_generator.py); barcode_data may be None.
DirectCall ==
    /\ pc = "idle"
    /\ caller' = "direct"
    /\ \E kind \in LabelKinds, q \in ManufacturerInputs,
          bc \in {None} \cup {Some(p) : p \in ProductInputs},
          d \in DescriptionInputs, b \in BinInputs,
          t \in ProviderInputs :
         CallRoutine(kind, q, bc, d, b,
                     IF bc = None THEN <<>> ELSE bc[1],
                     IF kind \in ShelfKinds THEN EquipmentShare ELSE t)
    /\ UNCHANGED <<selected_label, num_copies, selected_printer, envVars,
                   composeVars, exc, guiVars, spVars>>

\* A plausible slip: the last elif written as a catch-all else.
RoutineFallthrough(label) == IF label \in LabelKinds THEN label ELSE "2x4"

\* The if / elif chain on label_var.get(): the routine it selects.
Routine(label) == IF label \in LabelKinds THEN label ELSE NoRoutine

\* generate_labels up to the call of the selected routine; with no known
\* label type it prints and returns through its finally clause.
GenerateLabels ==
    /\ pc = "idle"
    /\ caller' = "gui"
    /\ \E label \in LabelVarInputs, n \in CopiesInputs, pr \in PrinterInputs :
         /\ selected_label' = label
         /\ num_copies' = n
         /\ selected_printer' = pr
         /\ IF Routine(label) # NoRoutine
              THEN /\ \E m \in ManufacturerInputs, p \in ProductInputs,
                         d \in DescriptionInputs, b \in BinInputs,
                         t \in ProviderInputs :
                        CallRoutine(Routine(label), m, Some(p), d, b, p,
                                    IF Routine(label) \in ShelfKinds
                                      THEN EquipmentShare ELSE t)
                   /\ printed' = printed
              ELSE /\ printed' = printed \cup {<<"No label type selected.">>}
                   /\ pc' = "finally"
                   /\ UNCHANGED <<routine, qr_data, barcode_data, description,
                                  bin_location, product_code, title>>
    /\ UNCHANGED <<files, qr_calls, barcode_calls, convert_calls,
                   composeVars, exc, guiVars, spVars>>

\* return temp_path: to generate_labels (label_file = ...) or the direct caller.
ComposeReturn ==
    /\ pc = "compose_return"
    /\ IF caller = "gui"
         THEN /\ label_file' = temp_path
              /\ printed' = printed \cup {<<"Label saved to temporary file">>}
              /\ pc' = "convert"
         ELSE /\ pc' = "done"
              /\ UNCHANGED <<label_file, printed>>
    /\ UNCHANGED <<caller, routine, reqVars, files, qr_calls, barcode_calls,
                   convert_calls, composeVars, exc, zpl_file, zpl_text,
                   response, copies_done, dispatches, spVars>>

\* convert_to_zpl: one POST of the label file; status 200 writes the .zpl
\* file and returns its path, any other status prints it with the
\* response text and returns None, an exception is printed and returns None.
Convert ==
    /\ pc = "convert"
    /\ convert_calls' = convert_calls + 1
    /\ \/ \E r \in Responses :
            /\ response' = r
            /\ IF r[1] = 200
                 THEN /\ zpl_file' = ZplPath(label_file)
                      /\ files' = files \cup {ZplPath(label_file)}
                      /\ zpl_text' = r[2]
                      /\ printed' = printed \cup {<<"ZPL saved">>}
                 ELSE /\ zpl_file' = NoFile
                      /\ printed' = printed \cup {<<"Error:", ToString(r[1]), r[2]>>}
                      /\ UNCHANGED <<files, zpl_text>>
       \/ /\ zpl_file' = NoFile
          /\ printed' = printed \cup {<<"An error occurred">>}
          /\ UNCHANGED <<files, zpl_text, response>>
    /\ pc' = "select_printer"
    /\ UNCHANGED <<caller, routine, reqVars, qr_calls, barcode_calls,
                   composeVars, exc, label_file, copies_done, dispatches, spVars>>

\* selected_printer = printer_combo.get(); if selected_printer: ... else: print
SelectPrinter ==
    /\ pc = "select_printer"
    /\ IF selected_printer # ""
         THEN pc' = "send_loop" /\ printed' = printed
         ELSE pc' = "finally" /\ printed' = printed \cup {<<"No printer selected.">>}
    /\ UNCHANGED <<caller, routine, reqVars, files, qr_calls, barcode_calls,
                   convert_calls, composeVars, exc, guiVars, spVars>>

\* A plausible slip: an off-by-one in the copies loop.
MoreCopiesOffByOne == copies_done <= num_copies

\* for _ in range(num_copies):
MoreCopies == copies_done < num_copies

\* One turn of the loop: send_to_printer(selected_printer, zpl_file) is
\* called with fresh locals, or the loop ends.
SendLoop ==
    /\ pc = "send_loop"
    /\ IF MoreCopies
         THEN /\ dispatches' = Append(dispatches,
                    [printer |-> selected_printer, zpl_file |-> zpl_file])
              /\ zpl_data' = ""
              /\ hprinter' = FALSE
              /\ job' = <<>>
              /\ sp_failed' = FALSE
              /\ pc' = "sp_read"
         ELSE /\ pc' = "finally"
              /\ UNCHANGED <<dispatches, zpl_data, hprinter, job, sp_failed>>
    /\ UNCHANGED <<caller, routine, reqVars, envVars, composeVars, exc,
                   label_file, zpl_file, zpl_text, response, copies_done,
                   opens, closes, sent>>

\* The except clause of send_to_printer: the error is printed and the
\* function returns normally; the caller's loop goes on.
SpCaught ==
    /\ sp_failed' = TRUE
    /\ printed' = printed \cup {<<"Failed to send to printer">>}
    /\ copies_done' = copies_done + 1
    /\ pc' = "send_loop"

\* with open(zpl_file, "r") as file: zpl_data = file.read()
\* open(None) raises TypeError, a missing file FileNotFoundError.
SpRead ==
    /\ pc = "sp_read"
    /\ IF zpl_file # NoFile /\ zpl_file \in files
         THEN /\ zpl_data' = zpl_text
              /\ pc' = "sp_open"
              /\ UNCHANGED <<sp_failed, printed, copies_done>>
         ELSE /\ SpCaught
              /\ zpl_data' = zpl_data
    /\ UNCHANGED <<caller, routine, reqVars, files, qr_calls, barcode_calls,
                   convert_calls, composeVars, exc, label_file, zpl_file,
                   zpl_text, response, dispatches, hprinter, job, opens,
                   closes, sent>>

\* hprinter = win32print.OpenPrinter(printer_name)
SpOpen ==
    /\ pc = "sp_open"
    /\ \E ok \in BOOLEAN :
         IF ok
           THEN /\ hprinter' = TRUE
                /\ opens' = opens + 1
                /\ pc' = "sp_job"
                /\ UNCHANGED <<sp_failed, printed, copies_done>>
           ELSE /\ SpCaught
                /\ UNCHANGED <<hprinter, opens>>
    /\ UNCHANGED <<caller, routine, reqVars, files, qr_calls, barcode_calls,
                   convert_calls, composeVars, exc, label_file, zpl_file,
                   zpl_text, response, dispatches, zpl_data, job, closes, sent>>

\* The spooler calls of one job, in order.
JobSteps == <<"StartDocPrinter", "StartPagePrinter", "WritePrinter",
              "EndPagePrinter", "EndDocPrinter">>

\* A plausible slip: the spooler calls without the inner try / finally, so
\* that a failing call goes straight to the except clause.
SpJobStepNoFinally ==
    /\ pc = "sp_job"
    /\ Len(job) < Len(JobSteps)
    /\ LET step == JobSteps[Len(job) + 1]
       IN  \E ok \in BOOLEAN :
             IF ok
               THEN /\ job' = Append(job, step)
                    /\ sent' = IF step = "WritePrinter"
                                 THEN Append(sent, [printer |-> selected_printer,
                                                    data |-> zpl_data])
                                 ELSE sent
                    /\ pc' = IF Len(job) + 1 = Len(JobSteps) THEN "sp_close" ELSE "sp_job"
                    /\ UNCHANGED <<sp_failed, printed, copies_done>>
               ELSE /\ SpCaught
                    /\ UNCHANGED <<job, sent>>
    /\ UNCHANGED <<caller, routine, reqVars, files, qr_calls, barcode_calls,
                   convert_calls, composeVars, exc, label_file, zpl_file,
                   zpl_text, response, dispatches, zpl_data, hprinter, opens,
                   closes>>

\* The next spooler call of the try block; a failing call leaves for the
\* finally clause with the error pending.
SpJobStep ==
    /\ pc = "sp_job"
    /\ Len(job) < Len(JobSteps)
    /\ LET step == JobSteps[Len(job) + 1]
       IN  \E ok \in BOOLEAN :
             IF ok
               THEN /\ job' = Append(job, step)
                    /\ sent' = IF step = "WritePrinter"
                                 THEN Append(sent, [printer |-> selected_printer,
                                                    data |-> zpl_data])
                                 ELSE sent
                    /\ pc' = IF Len(job) + 1 = Len(JobSteps) THEN "sp_close" ELSE "sp_job"
                    /\ sp_failed' = sp_failed
               ELSE /\ sp_failed' = TRUE
                    /\ pc' = "sp_close"
                    /\ UNCHANGED <<job, sent>>
    /\ UNCHANGED <<caller, routine, reqVars, envVars, composeVars, exc,
                   guiVars, zpl_data, hprinter, opens, closes>>

\* finally: win32print.ClosePrinter(hprinter); then the success print, or
\* the except clause for a pending error; the function returns None.
SpClose ==
    /\ pc = "sp_close"
    /\ hprinter' = FALSE
    /\ closes' = closes + 1
    /\ printed' = printed \cup (IF sp_failed
                                  THEN {<<"Failed to send to printer">>}
                                  ELSE {<<"ZPL sent to printer">>})
    /\ copies_done' = copies_done + 1
    /\ pc' = "send_loop"
    /\ UNCHANGED <<caller, routine, reqVars, files, qr_calls, barcode_calls,
                   convert_calls, composeVars, exc, label_file, zpl_file,
                   zpl_text, response, dispatches, zpl_data, job, sp_failed,
                   opens, sent>>

\* The finally clause of generate_labels: both removals share one try, so
\* a failing os.remove(label_file) skips the .zpl removal; the printed
\* error names the file whose removal failed; an exception in flight then
\* goes on to the caller (Tk's callback wrapper).
Finally ==
    /\ pc = "finally"
    /\ \E rmLabel \in BOOLEAN, rmZpl \in BOOLEAN :
         LET hasLabel == label_file # NoFile /\ label_file \in files
             files1 == IF hasLabel THEN files \ {label_file} ELSE files
             hasZpl == zpl_file # NoFile /\ zpl_file \in files1
         IN  IF hasLabel /\ ~rmLabel
               THEN /\ files' = files
                    /\ printed' = printed \cup {<<"Error during cleanup", label_file>>}
               ELSE IF hasZpl /\ ~rmZpl
                 THEN /\ files' = files1
                      /\ printed' = printed \cup {<<"Error during cleanup", zpl_file>>}
                 ELSE /\ files' = files1 \ {zpl_file}
                      /\ printed' = printed \cup {<<"Temporary files cleaned up.">>}
    /\ pc' = "done"
    /\ UNCHANGED <<caller, routine, reqVars, qr_calls, barcode_calls,
                   convert_calls, composeVars, exc, guiVars, spVars>>

Next ==
    \/ DirectCall
    \/ GenerateLabels
    \/ GenQr
    \/ GenBarcode
    \/ NewCanvas
    \/ Draw
    \/ Save
    \/ CleanupCodes
    \/ ComposeReturn
    \/ Convert
    \/ SelectPrinter
    \/ SendLoop
    \/ SpRead
    \/ SpOpen
    \/ SpJobStep
    \/ SpClose
    \/ Finally

Spec == Init /\ [][Next]_vars

\* ------------------------------------------- the wrapping step on its own
\* The wrapping statements of a routine applied to texts of every length
\* up to MaxLen: the bin-location limit of each kind, and the description
\* limit of the product kinds.
WrapInit ==
    /\ pc = "wrap"
    /\ caller = "direct"
    /\ routine \in LabelKinds
    /\ \E t \in WrapInputs : bin_location = t /\ description = t
    /\ selected_label = "None"
    /\ qr_data = <<>>
    /\ barcode_data = None
    /\ product_code = <<>>
    /\ title = <<>>
    /\ num_copies = 1
    /\ selected_printer = ""
    /\ files = {}
    /\ qr_calls = <<>>
    /\ barcode_calls = <<>>
    /\ convert_calls = 0
    /\ printed = {}
    /\ qr_file = NoFile
    /\ barcode_file = NoFile
    /\ canvas = <<>>
    /\ canvas_allocs = 0
    /\ drawn = <<>>
    /\ wrapped_bin_lines = <<>>
    /\ wrapped_desc_lines = <<>>
    /\ layout = NoLayout
    /\ saved = <<>>
    /\ temp_path = NoFile
    /\ exc = NoExc
    /\ label_file = NoFile
    /\ zpl_file = NoFile
    /\ zpl_text = ""
    /\ response = <<0, "">>
    /\ copies_done = 0
    /\ dispatches = <<>>
    /\ zpl_data = ""
    /\ hprinter = FALSE
    /\ job = <<>>
    /\ sp_failed = FALSE
    /\ opens = 0
    /\ closes = 0
    /\ sent = <<>>

WrapLines ==
    /\ pc = "wrap"
    /\ wrapped_bin_lines' = Wrap(bin_location, BinLimit(routine))
    /\ wrapped_desc_lines' = (IF routine \in ProductKinds
                                THEN Wrap(description, DescLimit(routine))
                                ELSE <<>>)
    /\ pc' = "wrapped"
    /\ UNCHANGED <<caller, routine, reqVars, envVars, qr_file, barcode_file,
                   canvas, canvas_allocs, drawn, layout, saved, temp_path,
                   exc, guiVars, spVars>>

WrapNext == WrapLines

WrapSpec == WrapInit /\ [][WrapNext]_vars

\* ---------------------------------------------------------------- claims
RECURSIVE Flatten(_)
Flatten(lines) ==
    IF lines = <<>> THEN <<>> ELSE Head(lines) \o Flatten(Tail(lines))

CeilDiv(n, k) == (n + k - 1) \div k

\* lines is the wrapping of s at k characters per line: it concatenates
\* back to s, every line but the last is k long, there are ceil(len/k)
\* lines, and none for the empty text.
WrapContract(s, k, lines) ==
    /\ k > 0
    /\ Flatten(lines) = s
    /\ \A i \in 1..(Len(lines) - 1) : Len(lines[i]) = k
    /\ Len(lines) = CeilDiv(Len(s), k)
    /\ (s = <<>> => lines = <<>>)
    /\ \A i \in 1..Len(lines) : lines[i] # <<>>

\* C1: for every text and every per-line limit a label routine uses, the
\* wrapped lines concatenate back to the text, every line except possibly
\* the last has exactly the limit's length, and there are ceil(len/limit)
\* lines: none at all for the empty text.
C1_WrapRoundTrip ==
    pc = "wrapped" =>
      /\ WrapContract(bin_location, BinLimit(routine), wrapped_bin_lines)
      /\ routine \in ProductKinds =>
           WrapContract(description, DescLimit(routine), wrapped_desc_lines)

\* An 11-character bin location on the 2x4 shelf label wraps to 5 + 5 + 1.
C1_Witness ==
    /\ pc = "wrapped"
    /\ routine = "2x4"
    /\ Len(bin_location) = 11
    /\ Len(wrapped_bin_lines) = 3
    /\ Len(wrapped_bin_lines[3]) = 1

\* The canvas each kind must have, in pixels.
ExpectedSize(kind) ==
    CASE kind = "1x2" -> <<406, 203>>
      [] kind = "1x3" -> <<609, 203>>
      [] kind = "1x4" -> <<812, 203>>
      [] kind = "2x4" -> <<812, 406>>

\* C2: for each of the four kinds, the canvas a compose allocates, and the
\* image a successful compose saves, is exactly widthInches*203 by
\* heightInches*203 pixels, whatever the request's texts and code data.
C2_CanvasSize ==
    /\ canvas # <<>> => canvas = ExpectedSize(routine)
    /\ saved # <<>> => saved = ExpectedSize(routine)
    /\ (pc = "compose_return" \/ (pc = "done" /\ caller = "direct" /\ exc = NoExc))
         => saved = ExpectedSize(routine) /\ temp_path \in files

\* A 1x3 product label composed and returned to its caller.
C2_Witness ==
    /\ pc = "done"
    /\ caller = "direct"
    /\ routine = "1x3"
    /\ exc = NoExc
    /\ saved = <<609, 203>>

NoBarcodeDrawn == \A i \in 1..Len(drawn) : drawn[i].op \notin {"barcode", "barcode_text"}

\* C3: a product routine called with barcode_data None never invokes the
\* barcode encoder and draws neither the barcode nor the product code
\* under it; the shelf routines never invoke the barcode encoder.
C3_NoBarcodeWithoutData ==
    /\ (routine \in ProductKinds /\ barcode_data = None) =>
         /\ barcode_calls = <<>>
         /\ BarcodePath \notin files
         /\ NoBarcodeDrawn
    /\ routine \in ShelfKinds => barcode_calls = <<>> /\ NoBarcodeDrawn

\* A product label with no barcode data, drawn and returned.
C3_Witness ==
    /\ routine \in ProductKinds
    /\ barcode_data = None
    /\ pc = "done"
    /\ exc = NoExc
    /\ Len(drawn) > 2
    /\ qr_calls # <<>>

\* The required field of the running routine is empty.
RequiredEmpty ==
    \/ routine \in ProductKinds /\ qr_data = <<>>
    \/ routine \in ShelfKinds /\ bin_location = <<>>

\* C4: a compose whose required field is empty (qr_data on product kinds,
\* bin_location on shelf kinds) is rejected with InvalidArgument before
\* any encoder is invoked.
C4_RejectsEmptyRequired ==
    RequiredEmpty =>
      /\ qr_calls = <<>>
      /\ barcode_calls = <<>>
      /\ pc \in {"finally", "done"} => exc = "InvalidArgument"

ComposeOver ==
    /\ routine \in LabelKinds
    /\ pc \notin {"idle", "gen_qr", "gen_barcode", "new_canvas", "draw", "save",
                  "cleanup_codes"}

\* C6: on every exit path of a compose call, the QR temp file and the
\* barcode temp file of that call are gone when it returns or raises.
C6_EncoderFilesReleased ==
    ComposeOver => QrPath \notin files /\ BarcodePath \notin files

\* An encoder call of this request failed.
EncoderFailed ==
    \/ \E i \in 1..Len(qr_calls) : ~qr_calls[i].ok
    \/ \E i \in 1..Len(barcode_calls) : ~barcode_calls[i].ok

\* C7: once the QR or the barcode encoder has failed, the error is in
\* flight to the caller, no further compose step runs (no retry, no canvas,
\* nothing drawn), and no label image is returned or left as a file.
C7_EncoderFailureAborts ==
    EncoderFailed =>
      /\ exc = "EncodingFailed"
      /\ pc \in {"finally", "done"}
      /\ Len(qr_calls) + Len(barcode_calls) <= 2
      /\ canvas_allocs = 0
      /\ drawn = <<>>
      /\ saved = <<>>
      /\ temp_path = NoFile
      /\ label_file = NoFile
      /\ LabelPath \notin files
      /\ convert_calls = 0
      /\ dispatches = <<>>

\* The barcode encoder failed and the error reached the handler's caller.
C7_Witness ==
    /\ barcode_calls # <<>>
    /\ ~barcode_calls[1].ok
    /\ caller = "gui"
    /\ pc = "done"
    /\ exc = "EncodingFailed"

\* The conversion service answered with a non-success status.
ConversionFailed == convert_calls > 0 /\ response[1] \notin {0, 200}

\* C8: a non-success answer of the converter is reported with its status
\* and message, the raster is not submitted again, and the request does
\* not go on to dispatch as though a payload existed.
C8_ConversionFailureStops ==
    ConversionFailed =>
      /\ <<"Error:", ToString(response[1]), response[2]>> \in printed
      /\ convert_calls = 1
      /\ zpl_file = NoFile
      /\ dispatches = <<>>

\* C9: with a label generated and converted, N copies and a printer
\* selected, exactly N dispatches are made, one after the other, each to
\* the selected printer with the same payload; with no printer, none.
C9_CopiesDispatched ==
    /\ Len(dispatches) <= num_copies
    /\ pc \in {"sp_read", "sp_open", "sp_job", "sp_close"} =>
         Len(dispatches) = copies_done + 1
    /\ (caller = "gui" /\ pc \in {"finally", "done"} /\ zpl_file # NoFile) =>
         IF selected_printer # ""
           THEN /\ Len(dispatches) = num_copies
                /\ \A i \in 1..Len(dispatches) :
                     dispatches[i] = [printer |-> selected_printer,
                                      zpl_file |-> zpl_file]
                /\ \A i \in 1..Len(sent) :
                     sent[i] = [printer |-> selected_printer, data |-> zpl_text]
           ELSE dispatches = <<>> /\ sent = <<>>

\* The largest number of copies, all of them written to the printer.
C9_Witness ==
    /\ pc = "done"
    /\ selected_printer # ""
    /\ num_copies = MaxCopies
    /\ Len(dispatches) = MaxCopies
    /\ Len(sent) = MaxCopies

\* C10: a failure at any step of a dispatch reaches the caller of the
\* dispatch as PrintDispatchFailed; a successful dispatch is one raw job,
\* started, written once and ended.  (Stated for dispatches of a payload
\* that exists, so that only the spooler's steps can fail.)
C10_DispatchFailureSurfaces ==
    (pc \in {"send_loop", "finally", "done"} /\ dispatches # <<>>
       /\ zpl_file # NoFile) =>
      IF sp_failed
        THEN exc = "PrintDispatchFailed"
        ELSE job = JobSteps /\ opens = closes


\* ------------------------------------------------ shelf caption geometry
\* font_bin_label: int(0.15 * H) on the 1x4 label, int(0.16 * H) on the 2x4.
font_bin_label_size(kind) ==
    CASE kind = "1x4" -> IntMul(label_height_px(kind), 15, 100)
      [] kind = "2x4" -> IntMul(label_height_px(kind), 16, 100)

\* bin_label_y: int(H * 0.2) on the 1x4 label, int(H * 0.15) on the 2x4.
bin_label_y(kind) ==
    CASE kind = "1x4" -> IntMul(label_height_px(kind), 2, 10)
      [] kind = "2x4" -> IntMul(label_height_px(kind), 15, 100)

\* bin_value_y = bin_label_y + font_bin_label.size + 5
bin_value_y(kind) == bin_label_y(kind) + font_bin_label_size(kind) + 5

BinCaption == [op |-> "caption", text |-> <<"B", "i", "n", " ", "#", ":">>]

\* C11: on every successful compose of a shelf kind (1x4 or 2x4) the
\* literal caption "Bin #:" is drawn, before and above the first line of
\* the wrapped bin-location value.
C11_CaptionAboveBin ==
    (routine \in ShelfKinds /\ saved # <<>>) =>
      /\ \E i \in 1..Len(drawn) :
           /\ drawn[i] = BinCaption
           /\ \A j \in 1..Len(drawn) : drawn[j].op = "bin" => i < j
      /\ bin_label_y(routine) < bin_value_y(routine)


\* The per-line limits the four kinds are said to use.
StatedBinLimit(kind) ==
    CASE kind = "1x2" -> 18
      [] kind = "1x3" -> 22
      [] kind = "1x4" -> 20
      [] kind = "2x4" -> 5

StatedDescLimit(kind) ==
    CASE kind = "1x2" -> 20
      [] kind = "1x3" -> 32

\* lines are the consecutive chunks of text, limit characters each.
ChunksAt(text, limit, lines) ==
    /\ Len(lines) = CeilDiv(Len(text), limit)
    /\ \A i \in 1..Len(lines) :
         lines[i] = SubSeq(text, (i - 1) * limit + 1,
                           IF i * limit < Len(text) THEN i * limit ELSE Len(text))

LineLengths(lines) == [i \in 1..Len(lines) |-> Len(lines[i])]

\* C12: each kind wraps at its own limits (1x2: bin 18, description 20;
\* 1x3: 22 and 32; 1x4: bin 20; 2x4: bin 5), so that "AA10" on the 2x4
\* label is the single line "AA10" and a 45-character description on the
\* 1x2 label gives lines of 20, 20 and 5 characters; one draw per line.
C12_LimitsPerKind ==
    drawn # <<>> =>
      /\ ChunksAt(bin_location, StatedBinLimit(routine), wrapped_bin_lines)
      /\ routine \in ProductKinds =>
           ChunksAt(description, StatedDescLimit(routine), wrapped_desc_lines)
      /\ (routine = "2x4" /\ bin_location = AA10) => wrapped_bin_lines = <<AA10>>
      /\ (routine = "1x2" /\ Len(description) = 45) =>
           LineLengths(wrapped_desc_lines) = <<20, 20, 5>>
      /\ Cardinality({i \in 1..Len(drawn) : drawn[i].op = "bin"}) = Len(wrapped_bin_lines)
      /\ Cardinality({i \in 1..Len(drawn) : drawn[i].op = "desc"}) = Len(wrapped_desc_lines)

\* A 1x2 product label whose 45-character description wrapped to 3 lines.
C12_Witness ==
    /\ pc = "done"
    /\ routine = "1x2"
    /\ Len(description) = 45
    /\ LineLengths(wrapped_desc_lines) = <<20, 20, 5>>
    /\ bin_location = AA10
    /\ wrapped_bin_lines = <<AA10>>


BarcodeDrawn == \E i \in 1..Len(drawn) : drawn[i].op = "barcode"

\* C13: on a product label the description's horizontal anchor is the
\* barcode's x (int(0.55 * width): 223 on 1x2, 334 on 1x3) exactly when a
\* barcode was drawn and the QR code's x (int(0.05 * width): 20, 30)
\* otherwise; its vertical start is 0.625 * height (126.875 px) either
\* way; the anchor is assigned on both branches.
C13_DescAnchor ==
    (routine \in ProductKinds /\ drawn # <<>>) =>
      LET w == ExpectedSize(routine)[1]
          h == ExpectedSize(routine)[2]
      IN  /\ layout.desc_x # Unbound
          /\ layout.qr_x = (5 * w) \div 100
          /\ layout.qr_x = (IF routine = "1x2" THEN 20 ELSE 30)
          /\ BarcodeDrawn =>
               /\ layout.barcode_x = (55 * w) \div 100
               /\ layout.barcode_x = (IF routine = "1x2" THEN 223 ELSE 334)
               /\ layout.desc_x = layout.barcode_x
          /\ ~BarcodeDrawn =>
               /\ layout.barcode_x = Unbound
               /\ layout.desc_x = layout.qr_x
          /\ (layout.desc_x = (55 * w) \div 100) <=> BarcodeDrawn
          /\ layout.desc_y_milli = 625 * h
          /\ layout.desc_y_milli = 126875

\* A 1x3 product label without barcode: the description, wrapped to two
\* lines, is anchored at the QR code's x.
C13_Witness ==
    /\ pc = "done"
    /\ routine = "1x3"
    /\ ~BarcodeDrawn
    /\ Len(wrapped_desc_lines) = 2
    /\ layout.desc_x = 30
    /\ exc = NoExc


\* C14: when generate_labels has finished, on any path, neither the label
\* image temp file nor the .zpl temp file of the invocation exists, and a
\* failing removal of the label file does not keep the .zpl file from
\* being removed.  (Stated leniently: a file may stay only when its own
\* removal was the one that failed.)
C14_TempFilesRemoved ==
    (caller = "gui" /\ pc = "done") =>
      /\ LabelPath \in files => <<"Error during cleanup", LabelPath>> \in printed
      /\ ZplPath(LabelPath) \in files =>
           <<"Error during cleanup", ZplPath(LabelPath)>> \in printed


\* C15: in send_to_printer every handle that OpenPrinter returned is
\* closed exactly once before the function returns, whether the job steps
\* succeed or one of them fails, and nothing is closed that was not opened.
C15_HandlesClosedOnce ==
    /\ closes <= opens
    /\ opens - closes = (IF hprinter THEN 1 ELSE 0)
    /\ hprinter <=> pc \in {"sp_job", "sp_close"}
    /\ pc \in {"send_loop", "finally", "done"} => opens = closes
    /\ opens <= Len(dispatches)

\* WritePrinter failed in a dispatch; its handle was closed on the way out.
C15_Witness ==
    /\ pc = "send_loop"
    /\ sp_failed
    /\ job = <<"StartDocPrinter", "StartPagePrinter">>
    /\ opens = 1
    /\ closes = 1
    /\ ~hprinter

====
